---------------------------- MODULE Spec2Model ----------------------------
(* A model of get_twig.py: the pipeline                                    *)
(*   feed fetch -> first-link extraction -> post fetch -> extraction ->    *)
(*   formatting -> text send -> image send                                 *)
(* and of its pure functions.                                              *)
(*                                                                         *)
(* A Python str is a sequence of one-character strings; the grave accent,  *)
(* which SANY cannot lex inside a string, is the element "GRAVE".  A value *)
(* that may be None is a record [some, v].  A URL is the record urlparse   *)
(* makes of it: [scheme, netloc, path], each a str.                        *)
EXTENDS Integers, Sequences, FiniteSets, TLC

VARIABLES
  pc,          \* the position of the run
  BOT_TOKEN,   \* os.getenv("BOT_TOKEN")
  CHAT_ID,     \* os.getenv("CHAT_ID")
  xml_content, \* main's local: the feed's body, or None
  post_url,    \* main's local: the first item link, or None
  soup,        \* main's local: the parsed post, or None
  post_title,  \* main's local
  headers,     \* main's local
  image_urls,  \* main's local
  text,        \* main's local; send_message_filtering_large_text's argument
  chunks,      \* send_message_filtering_large_text's local
  sent,        \* how many chunks the for loop has passed
  netlog,      \* every HTTP request issued, in order
  stagelog,    \* every stage of main entered, in order
  esc_in,      \* escape_markdown_v2's argument
  esc_out      \* escape_markdown_v2's result

vars == <<pc, BOT_TOKEN, CHAT_ID, xml_content, post_url, soup, post_title,
          headers, image_urls, text, chunks, sent, netlog, stagelog,
          esc_in, esc_out>>

-----------------------------------------------------------------------------
(* Bounds of the model *)

MaxEscLen == 3
MaxChunks == 3
MaxImgs == 15
MaxHeadings == 2
MaxImgTags == 2
MaxHdrs == 2

-----------------------------------------------------------------------------
(* Python values *)

NoneS == [some |-> FALSE, v |-> <<>>]
Some(x) == [some |-> TRUE, v |-> x]

\* bool(x) of a str-or-None
Truthy(o) == o.some /\ o.v # <<>>

\* every sequence over S of at most n elements
Seqs(S, n) == UNION {[1..k -> S] : k \in 0..n}

RECURSIVE Flatten(_)
Flatten(ss) ==
  IF Len(ss) = 0 THEN <<>>
  ELSE IF Len(ss) = 1 THEN ss[1]
  ELSE LET m == Len(ss) \div 2
       IN  Flatten(SubSeq(ss, 1, m)) \o Flatten(SubSeq(ss, m + 1, Len(ss)))

Whitespace == {" ", "\n", "\t"}

\* str.strip(): the leading and the trailing whitespace go
Strip(s) ==
  LET n == Len(s)
      lead == CHOOSE k \in 0..n :
                /\ \A j \in 1..k : s[j] \in Whitespace
                /\ k = n \/ s[k + 1] \notin Whitespace
      trail == CHOOSE k \in 0..n :
                 /\ \A j \in 1..k : s[n + 1 - j] \in Whitespace
                 /\ k = n \/ s[n - k] \notin Whitespace
  IN  IF lead = n THEN <<>> ELSE SubSeq(s, lead + 1, n - trail)

\* needle in hay, both str
Substring(needle, hay) ==
  \E i \in 0..(Len(hay) - Len(needle)) :
    SubSeq(hay, i + 1, i + Len(needle)) = needle

\* f"{x}" of a str-or-None
PyStr(o) == IF o.some THEN o.v ELSE <<"N", "o", "n", "e">>

-----------------------------------------------------------------------------
(* escape_markdown_v2 *)

\* a faulty variant: the exclamation mark is missing from the set
special_chars_NoBang ==
  {"_", "\\", "*", "[", "]", "(", ")", "~", "GRAVE", ">", "#", "+", "-",
   "=", "|", "{", "}", "."}

special_chars ==
  {"_", "\\", "*", "[", "]", "(", ")", "~", "GRAVE", ">", "#", "+", "-",
   "=", "|", "{", "}", ".", "!"}

\* the replacement r'\\\1' of one match of the character class
EscChar(c) == IF c \in special_chars THEN <<"\\", c>> ELSE <<c>>

escape_markdown_v2(s) == Flatten([i \in 1..Len(s) |-> EscChar(s[i])])

-----------------------------------------------------------------------------
(* URLs: urlparse's parts, urlunparse, requests.compat.urljoin *)

EmptyRef == [scheme |-> <<>>, netloc |-> <<>>, path |-> <<>>]
NoneRef == [some |-> FALSE, v |-> EmptyRef]

Https == <<"h", "t", "t", "p", "s">>
Http == <<"h", "t", "t", "p">>

\* urlunparse
UrlStr(u) ==
  (IF u.scheme # <<>> THEN u.scheme \o <<":">> ELSE <<>>)
  \o (IF u.netloc # <<>> THEN <<"/", "/">> \o u.netloc ELSE <<>>)
  \o u.path

\* bool(x) of a URL string or None
TruthyRef(o) == o.some /\ UrlStr(o.v) # <<>>

\* the schemes urljoin resolves against a base (urllib.parse.uses_relative),
\* as far as the model's URLs use them
uses_relative == {Http, Https}

\* the base path up to and including its last "/"
DirOf(path) ==
  LET slashes == {i \in 1..Len(path) : path[i] = "/"}
  IN  IF slashes = {} THEN <<"/">>
      ELSE SubSeq(path, 1, CHOOSE i \in slashes : \A j \in slashes : j <= i)

\* requests.compat.urljoin(base, url), base and url non-empty, paths
\* without dot segments
urljoin(base, url) ==
  LET scheme == IF url.scheme = <<>> THEN base.scheme ELSE url.scheme
  IN  IF scheme # base.scheme \/ scheme \notin uses_relative THEN url
      ELSE IF url.netloc # <<>>
        THEN [scheme |-> scheme, netloc |-> url.netloc, path |-> url.path]
      ELSE IF url.path = <<>>
        THEN [scheme |-> scheme, netloc |-> base.netloc, path |-> base.path]
      ELSE IF url.path[1] = "/"
        THEN [scheme |-> scheme, netloc |-> base.netloc, path |-> url.path]
      ELSE [scheme |-> scheme, netloc |-> base.netloc,
            path |-> DirOf(base.path) \o url.path]

\* a URL requests.get sends a request to; any other raises MissingSchema,
\* InvalidSchema or InvalidURL before the network is touched
ValidUrl(u) == u.scheme \in {Http, Https} /\ u.netloc # <<>>

-----------------------------------------------------------------------------
(* extract_post_data *)

\* A heading element: [name, class, id, children]; class is the list of its
\* classes or None, id its id or None, children its child nodes in order,
\* each [kind |-> "text" or "tag", text]: a direct string, or a nested
\* element with the text it holds.  An img element: [onpath, src]; onpath
\* says whether "body > main > div.post > blockquote > p > img" selects it.

UntitledPost == <<"U", "n", "t", "i", "t", "l", "e", "d", " ", "P", "o", "s", "t">>

Marker ==
  <<"t", "h", "a", "t", "s", "-", "a", "l", "l", "-", "f", "o", "r", "-",
    "t", "h", "i", "s", "-", "w", "e", "e", "k">>

\* the default [] of header.get(name, [])
EmptyList == Some(<<>>)

\* tag.get(name, default)
Get(attr, default) == IF attr.some THEN attr ELSE default

\* header.text
TagText(h) == Flatten([i \in 1..Len(h.children) |-> h.children[i].text])

\* [t.strip() for t in header.find_all(string=True, recursive=False) if t.strip()]
TextParts(h) ==
  LET IsDirect(c) == c.kind = "text" /\ Strip(c.text) # <<>>
      direct == SelectSeq(h.children, IsDirect)
  IN  [i \in 1..Len(direct) |-> Strip(direct[i].text)]

\* "post-title" in header.get("class", [])
IsTitle(h) ==
  LET cls == Get(h.class, EmptyList).v
  IN  \E i \in 1..Len(cls) : cls[i] = "post-title"

\* a faulty variant: header.get("id") without the default
IdDefault_None == NoneS

\* the default of header.get("id", []) in the closing-marker test
IdDefault == EmptyList

\* a faulty variant: the closing marker is never recognised
IsClosing_Never(h) == FALSE

\* "thats-all-for-this-week" in header.get("id", []); a str id is searched
\* for the substring
IsClosing(h) == Substring(Marker, Get(h.id, IdDefault).v)

\* if h3_id and h3_text
H3Included(h) == Truthy(h.id) /\ TextParts(h) # <<>>

\* one pass of the for loop over soup.find_all(["h1", "h3"]); acc is
\* [raised, title, headers]
HeaderStep(acc, h) ==
  IF acc.raised THEN acc
  ELSE IF h.name = "h1" THEN
    IF IsTitle(h) THEN [acc EXCEPT !.title = Strip(TagText(h))]
    ELSE IF ~Get(h.id, IdDefault).some THEN [acc EXCEPT !.raised = TRUE]
    ELSE IF IsClosing(h) THEN acc
    ELSE [acc EXCEPT !.headers =
            Append(@, [type |-> "h1", id |-> h.id,
                       content |-> Strip(TagText(h))])]
  ELSE IF H3Included(h) THEN
    [acc EXCEPT !.headers =
       Append(@, [type |-> "h3", id |-> h.id, content |-> TextParts(h)[1]])]
  ELSE acc

RECURSIVE ScanHeaders(_, _)
ScanHeaders(hs, acc) ==
  IF hs = <<>> THEN acc ELSE ScanHeaders(Tail(hs), HeaderStep(acc, Head(hs)))

\* if img.get('src')
HasSrc(img) == TruthyRef(img.src)

\* [urljoin(post_url, img.get('src')) for img in img_tags if img.get('src')]
ImageUrls(sp, url) ==
  LET Selected(img) == img.onpath /\ HasSrc(img)
      tags == SelectSeq(sp.imgs, Selected)
  IN  [i \in 1..Len(tags) |-> urljoin(url, tags[i].src.v)]

\* extract_post_data(soup, post_url): [raised, title, headers, images]
extract_post_data(sp, url) ==
  LET acc == ScanHeaders(sp.headings,
                         [raised |-> FALSE, title |-> UntitledPost,
                          headers |-> <<>>])
  IN  [raised |-> acc.raised, title |-> acc.title, headers |-> acc.headers,
       images |-> ImageUrls(sp, url)]

-----------------------------------------------------------------------------
(* prepare_text_for_sending *)

LineBreak == <<"\\", "\n">>

H1Bullet == <<"\\", "-", " ">>
H3Bullet == <<" ", " ", " ", "\\", "-", " ">>

\* escape_markdown_v2(header['content'])
Label(h) == escape_markdown_v2(h.content)

\* f"[{escape_markdown_v2(header['content'])}]({url}#{header['id']})"
Content(h, url) ==
  <<"[">> \o Label(h) \o <<"]", "(">> \o url \o <<"#">> \o PyStr(h.id)
  \o <<")">>

\* a faulty variant: a third-level header is not indented
Bullet_Flat(h) == H1Bullet

\* the bullet marker of a header's type
Bullet(h) == IF h.type = "h1" THEN H1Bullet ELSE H3Bullet

\* one pass of the for loop: what a header adds to text
HeaderLine(h, url) ==
  IF h.type \in {"h1", "h3"} THEN LineBreak \o Bullet(h) \o Content(h, url)
  ELSE <<>>

\* prepare_text_for_sending(title, headers, url)
prepare_text_for_sending(title, hdrs, url) ==
  escape_markdown_v2(title) \o LineBreak
  \o Flatten([i \in 1..Len(hdrs) |-> HeaderLine(hdrs[i], url)])

-----------------------------------------------------------------------------
(* The HTTP layer and the dispatcher *)

Min(a, b) == IF a <= b THEN a ELSE b

\* what requests.get / requests.post followed by raise_for_status come to:
\* a 2xx response, HTTPError for any other status, or a transport error
Outcomes == {"ok", "HTTPError", "ConnectionError"}

\* requests.RequestException and the subclasses the model raises
RequestException ==
  {"RequestException", "HTTPError", "ConnectionError", "MissingSchema"}

\* except requests.RequestException, in fetch_rss_content and
\* fetch_post_content
FetchCaught(exc) == exc \in RequestException

\* a faulty variant: only HTTPError is caught
SendCaught_HTTPErrorOnly(exc) == exc = "HTTPError"

\* except requests.RequestException, in send_telegram_message
SendCaught(exc) == exc \in RequestException

\* except requests.RequestException, in send_telegram_images
ImagesCaught(exc) == exc \in RequestException

Request(method, target, txt, media, outcome) ==
  [method |-> method, target |-> target, text |-> txt, media |-> media,
   outcome |-> outcome]

ChunkSize == 4000

\* a faulty variant: the last, shorter chunk is lost
Chunking_DropTail(t) ==
  [k \in 1..(Len(t) \div ChunkSize) |->
     SubSeq(t, (k - 1) * ChunkSize + 1, k * ChunkSize)]

\* [text[i:i + 4000] for i in range(0, len(text), 4000)]
Chunking(t) ==
  [k \in 1..((Len(t) + ChunkSize - 1) \div ChunkSize) |->
     SubSeq(t, (k - 1) * ChunkSize + 1, Min(k * ChunkSize, Len(t)))]

MAX_IMAGES_PER_MESSAGE == 10

\* a faulty variant: the list is not cut to the batch size
MediaGroup_Unsliced(urls) ==
  [k \in 1..Len(urls) |-> [type |-> "photo", media |-> urls[k]]]

\* [{"type": "photo", "media": url} for url in image_urls[:MAX_IMAGES_PER_MESSAGE]]
MediaGroup(urls) ==
  [k \in 1..Min(Len(urls), MAX_IMAGES_PER_MESSAGE) |->
     [type |-> "photo", media |-> urls[k]]]

-----------------------------------------------------------------------------
(* The feed *)

\* A response body: [empty, malformed, items]; items are the feed's item
\* elements in document order, each the sequence of the texts of its link
\* children (None for an empty element).

NoBody == [some |-> FALSE, v |-> [empty |-> TRUE, malformed |-> FALSE, items |-> <<>>]]

\* bool(x) of a bytes-or-None
TruthyBytes(o) == o.some /\ ~o.v.empty

\* get_latest_post_url(xml_content): ParseError is caught; find gives the
\* first link child of an item, in document order
get_latest_post_url(body) ==
  IF body.malformed THEN NoneRef
  ELSE LET links == Flatten(body.items)
       IN  IF links = <<>> THEN NoneRef ELSE links[1]

-----------------------------------------------------------------------------
(* main *)

\* a faulty variant: the values are only tested for None
StartupOk_NotNone(tok, chat) == tok.some /\ chat.some

\* not (not BOT_TOKEN or not CHAT_ID)
StartupOk(tok, chat) == (tok.some /\ tok.v # "") /\ (chat.some /\ chat.v # "")

\* if not xml_content: return
AfterFetchRss(x) == IF ~TruthyBytes(x) THEN "done" ELSE "get_url"

\* a faulty variant: the early return is missing
AfterGetUrl_NoReturn(u) == "fetch_post"

\* if not post_url: return
AfterGetUrl(u) == IF ~TruthyRef(u) THEN "done" ELSE "fetch_post"

\* if not soup: return (a BeautifulSoup object is always true)
AfterFetchPost(s) == IF ~s.some THEN "done" ELSE "extract"

EmptyDoc == [headings |-> <<>>, imgs |-> <<>>]
NoSoup == [some |-> FALSE, v |-> EmptyDoc]

-----------------------------------------------------------------------------
(* The inputs the model draws from *)

Url(scheme, netloc, path) == [scheme |-> scheme, netloc |-> netloc, path |-> path]

PostUrl == Url(Https, <<"t", ".", "o">>, <<"/", "p", "/", "1", "/">>)
PostUrl2 == Url(Https, <<"t", ".", "o">>, <<"/", "p", "/", "w">>)
OtherUrl == Url(Https, <<"t", ".", "o">>, <<"/", "p", "/", "0", "/">>)
RelLink == Url(<<>>, <<>>, <<"/", "p", "/", "1", "/">>)

EnvValues == {[some |-> FALSE, v |-> ""], Some(""), Some("set")}

Body(items) == Some([empty |-> FALSE, malformed |-> FALSE, items |-> items])

FeedBodies ==
  { Some([empty |-> TRUE, malformed |-> FALSE, items |-> <<>>]),
    Some([empty |-> FALSE, malformed |-> TRUE, items |-> <<>>]),
    Body(<<>>),
    Body(<< <<>> >>),
    Body(<< <<NoneRef>> >>),
    Body(<< <<Some(RelLink)>> >>),
    Body(<< <<Some(PostUrl)>> >>),
    Body(<< <<>>, <<Some(PostUrl2), Some(OtherUrl)>>, <<Some(OtherUrl)>> >>) }

NoClass == [some |-> FALSE, v |-> <<>>]
TitleClass == Some(<<"post", "post-title">>)
Txt(s) == [kind |-> "text", text |-> s]
Tag(s) == [kind |-> "tag", text |-> s]
Heading(name, class, id, children) ==
  [name |-> name, class |-> class, id |-> id, children |-> children]
Img(onpath, src) == [onpath |-> onpath, src |-> src]

HeadingPool ==
  { Heading("h1", TitleClass, NoneS, <<Txt(<<" ", "T", ".", "\n">>)>>),
    Heading("h1", NoClass, Some(<<"i", "n">>), <<Txt(<<" ", "N", "-", "1", " ">>)>>),
    Heading("h1", NoClass, NoneS, <<Txt(<<"N", "o">>)>>),
    Heading("h1", Some(<<"x">>), Some(<<>>), <<Txt(<<"E", "m">>)>>),
    Heading("h1", NoClass, Some(Marker), <<Txt(<<"E", "n", "d">>)>>),
    Heading("h1", TitleClass, Some(Marker), <<Txt(<<"B", "y", "e">>)>>),
    Heading("h1", NoClass, Some(Marker \o <<"-", "2">>), <<Txt(<<"M", "2">>)>>),
    Heading("h3", NoClass, Some(<<"a", "p">>),
            <<Tag(<<"#">>), Txt(<<" ">>), Txt(<<" ", "A", "p", " ">>), Txt(<<"x">>)>>),
    Heading("h3", NoClass, Some(<<"e", "t">>), <<Tag(<<"#">>), Txt(<<"\n", " ">>)>>),
    Heading("h3", NoClass, NoneS, <<Txt(<<"Y">>)>>),
    Heading("h3", NoClass, Some(Marker), <<Txt(<<"Z">>)>>) }

ImgPool ==
  { Img(TRUE, Some(Url(Https, <<"c">>, <<"/", "a">>))),
    Img(TRUE, Some(Url(Http, <<"c">>, <<"/", "h">>))),
    Img(TRUE, Some(Url(<<>>, <<"c">>, <<"/", "g">>))),
    Img(TRUE, Some(Url(<<>>, <<>>, <<"/", "i", "/", "b">>))),
    Img(TRUE, Some(Url(<<>>, <<>>, <<"c">>))),
    Img(TRUE, Some(Url(<<"d", "a", "t", "a">>, <<>>, <<"x">>))),
    Img(TRUE, NoneRef),
    Img(TRUE, Some(EmptyRef)),
    Img(FALSE, Some(Url(<<>>, <<>>, <<"n">>))) }

Names ==
  <<"a", "b", "c", "d", "e", "f", "g", "h", "i", "j", "k", "l", "m", "n", "o",
    "p", "q">>
ImgUrl(j) == Url(Https, <<"c">>, <<"/", Names[j]>>)
ImgList(n, s) == [k \in 1..n |-> ImgUrl(((s + k) % Len(Names)) + 1)]

Pattern(n, p) == [i \in 1..n |-> IF i % p = 0 THEN "." ELSE "a"]

DocEmpty == EmptyDoc
DocWeekly ==
  [headings |->
     << Heading("h1", TitleClass, NoneS, <<Txt(<<" ", "T", ".", "\n">>)>>),
        Heading("h1", NoClass, Some(<<"i", "n">>), <<Txt(<<" ", "N", "-", "1", " ">>)>>),
        Heading("h3", NoClass, Some(<<"a", "p">>),
                <<Tag(<<"#">>), Txt(<<" ", "A", "p", " ">>)>>),
        Heading("h1", NoClass, Some(Marker), <<Txt(<<"E", "n", "d">>)>>) >>,
   imgs |->
     << Img(TRUE, Some(Url(<<>>, <<>>, <<"/", "i", "/", "b">>))),
        Img(TRUE, NoneRef),
        Img(TRUE, Some(Url(Https, <<"c">>, <<"/", "a">>))) >>]
DocLong ==
  [headings |->
     << Heading("h1", TitleClass, NoneS, <<Txt(Pattern(2 * ChunkSize, 7))>>) >>,
   imgs |-> [k \in 1..(MAX_IMAGES_PER_MESSAGE + 1) |-> Img(TRUE, Some(ImgUrl(k)))]]

PostDocs == {DocEmpty, DocWeekly, DocLong}

-----------------------------------------------------------------------------
(* The steps of a run *)

\* lines 18-22: the module reads the environment and raises EnvironmentError
Startup ==
  /\ pc = "startup"
  /\ pc' = IF StartupOk(BOT_TOKEN, CHAT_ID) THEN "fetch_rss" ELSE "aborted"
  /\ UNCHANGED <<BOT_TOKEN, CHAT_ID, xml_content, post_url, soup, post_title,
                 headers, image_urls, text, chunks, sent, netlog, stagelog,
                 esc_in, esc_out>>

\* xml_content = fetch_rss_content(RSS_FEED_URL); if not xml_content: return
FetchRss ==
  /\ pc = "fetch_rss"
  /\ \E out \in Outcomes, body \in FeedBodies :
       LET x == IF out = "ok" THEN body ELSE NoBody
       IN  /\ netlog' = Append(netlog, Request("GET", "feed", <<>>, <<>>, out))
           /\ xml_content' = x
           /\ pc' = IF out = "ok" \/ FetchCaught(out) THEN AfterFetchRss(x)
                    ELSE "crashed"
  /\ stagelog' = Append(stagelog, "fetch_rss")
  /\ UNCHANGED <<BOT_TOKEN, CHAT_ID, post_url, soup, post_title, headers,
                 image_urls, text, chunks, sent, esc_in, esc_out>>

\* post_url = get_latest_post_url(xml_content); if not post_url: return
GetUrl ==
  /\ pc = "get_url"
  /\ post_url' = get_latest_post_url(xml_content.v)
  /\ pc' = AfterGetUrl(post_url')
  /\ stagelog' = Append(stagelog, "get_url")
  /\ UNCHANGED <<BOT_TOKEN, CHAT_ID, xml_content, soup, post_title, headers,
                 image_urls, text, chunks, sent, netlog, esc_in, esc_out>>

\* soup = fetch_post_content(post_url); if not soup: return
FetchPost ==
  /\ pc = "fetch_post"
  /\ IF ~ValidUrl(post_url.v)
       THEN /\ soup' = NoSoup
            /\ netlog' = netlog
            /\ pc' = IF FetchCaught("MissingSchema") THEN AfterFetchPost(NoSoup)
                     ELSE "crashed"
       ELSE \E out \in Outcomes, doc \in PostDocs :
              LET sp == IF out = "ok" THEN Some(doc) ELSE NoSoup
              IN  /\ netlog' = Append(netlog, Request("GET", "post", <<>>, <<>>, out))
                  /\ soup' = sp
                  /\ pc' = IF out = "ok" \/ FetchCaught(out)
                           THEN AfterFetchPost(sp) ELSE "crashed"
  /\ stagelog' = Append(stagelog, "fetch_post")
  /\ UNCHANGED <<BOT_TOKEN, CHAT_ID, xml_content, post_url, post_title, headers,
                 image_urls, text, chunks, sent, esc_in, esc_out>>

\* post_title, headers, image_urls = extract_post_data(soup, post_url)
Extract ==
  /\ pc = "extract"
  /\ LET r == extract_post_data(soup.v, post_url.v)
     IN  IF r.raised
           THEN /\ pc' = "crashed"
                /\ UNCHANGED <<post_title, headers, image_urls>>
           ELSE /\ pc' = "prepare"
                /\ post_title' = r.title
                /\ headers' = r.headers
                /\ image_urls' = r.images
  /\ stagelog' = Append(stagelog, "extract")
  /\ UNCHANGED <<BOT_TOKEN, CHAT_ID, xml_content, post_url, soup, text, chunks,
                 sent, netlog, esc_in, esc_out>>

\* text = prepare_text_for_sending(post_title, headers, post_url)
Prepare ==
  /\ pc = "prepare"
  /\ text' = prepare_text_for_sending(post_title, headers, UrlStr(post_url.v))
  /\ pc' = "split"
  /\ stagelog' = Append(stagelog, "prepare")
  /\ UNCHANGED <<BOT_TOKEN, CHAT_ID, xml_content, post_url, soup, post_title,
                 headers, image_urls, chunks, sent, netlog, esc_in, esc_out>>

\* send_message_filtering_large_text: the chunks are built
Split ==
  /\ pc = "split"
  /\ chunks' = Chunking(text)
  /\ sent' = 0
  /\ pc' = IF chunks' = <<>> THEN "send_images" ELSE "send_chunk"
  /\ stagelog' = Append(stagelog, "send_text")
  /\ UNCHANGED <<BOT_TOKEN, CHAT_ID, xml_content, post_url, soup, post_title,
                 headers, image_urls, text, netlog, esc_in, esc_out>>

\* one pass of "for chunk in chunks: send_telegram_message(...)"
SendChunk ==
  /\ pc = "send_chunk"
  /\ \E out \in Outcomes :
       /\ netlog' = Append(netlog, Request("POST", "sendMessage",
                                           chunks[sent + 1], <<>>, out))
       /\ IF out = "ok" \/ SendCaught(out)
            THEN /\ sent' = sent + 1
                 /\ pc' = IF sent + 1 = Len(chunks) THEN "send_images"
                          ELSE "send_chunk"
            ELSE /\ sent' = sent
                 /\ pc' = "crashed"
  /\ UNCHANGED <<BOT_TOKEN, CHAT_ID, xml_content, post_url, soup, post_title,
                 headers, image_urls, text, chunks, stagelog, esc_in, esc_out>>

\* send_telegram_images(BOT_TOKEN, CHAT_ID, image_urls)
SendImages ==
  /\ pc = "send_images"
  /\ IF image_urls = <<>>
       THEN /\ netlog' = netlog
            /\ pc' = "done"
       ELSE \E out \in Outcomes :
              /\ netlog' = Append(netlog, Request("POST", "sendMediaGroup", <<>>,
                                                  MediaGroup(image_urls), out))
              /\ pc' = IF out = "ok" \/ ImagesCaught(out) THEN "done"
                       ELSE "crashed"
  /\ stagelog' = Append(stagelog, "send_images")
  /\ UNCHANGED <<BOT_TOKEN, CHAT_ID, xml_content, post_url, soup, post_title,
                 headers, image_urls, text, chunks, sent, esc_in, esc_out>>

\* a call of escape_markdown_v2
Escape ==
  /\ pc = "escape"
  /\ esc_out' = escape_markdown_v2(esc_in)
  /\ pc' = "escaped"
  /\ UNCHANGED <<BOT_TOKEN, CHAT_ID, xml_content, post_url, soup, post_title,
                 headers, image_urls, text, chunks, sent, netlog, stagelog,
                 esc_in>>

-----------------------------------------------------------------------------
(* The specifications *)

\* every variable before main has assigned it
Blank ==
  /\ xml_content = NoBody
  /\ post_url = NoneRef
  /\ soup = NoSoup
  /\ post_title = <<>>
  /\ headers = <<>>
  /\ image_urls = <<>>
  /\ text = <<>>
  /\ chunks = <<>>
  /\ sent = 0
  /\ netlog = <<>>
  /\ stagelog = <<>>
  /\ esc_in = <<>>
  /\ esc_out = <<>>

\* the whole program, from the import of the module on
Init ==
  /\ pc = "startup"
  /\ BOT_TOKEN \in EnvValues
  /\ CHAT_ID \in EnvValues
  /\ Blank

Next ==
  \/ Startup
  \/ FetchRss
  \/ GetUrl
  \/ FetchPost
  \/ Extract
  \/ Prepare
  \/ Split
  \/ SendChunk
  \/ SendImages

Spec == Init /\ [][Next]_vars

\* the valid environment of a run that got past the startup check
EnvSet ==
  /\ BOT_TOKEN = Some("set")
  /\ CHAT_ID = Some("set")

\* escape_markdown_v2 on every str over EscAlphabet of up to MaxEscLen
\* characters
EscAlphabet ==
  {"a", " ", "\\", "_", "*", "[", "]", "(", ")", "~", "GRAVE", ">", "#", "+",
   "-", "=", "|", "{", "}", ".", "!"}

InitEscape ==
  /\ pc = "escape"
  /\ EnvSet
  /\ xml_content = NoBody /\ post_url = NoneRef /\ soup = NoSoup
  /\ post_title = <<>> /\ headers = <<>> /\ image_urls = <<>>
  /\ text = <<>> /\ chunks = <<>> /\ sent = 0
  /\ netlog = <<>> /\ stagelog = <<>>
  /\ esc_in \in Seqs(EscAlphabet, MaxEscLen)
  /\ esc_out = <<>>

NextEscape == Escape

SpecEscape == InitEscape /\ [][NextEscape]_vars

\* send_message_filtering_large_text on texts of up to MaxChunks chunks
TextLengths ==
  {k * ChunkSize + d : k \in 0..(MaxChunks - 1), d \in {0, 1, 2, ChunkSize - 1}}
  \cup {MaxChunks * ChunkSize}

TextInputs == {Pattern(n, p) : n \in TextLengths, p \in {3, 7}}

InitChunks ==
  /\ pc = "split"
  /\ EnvSet
  /\ xml_content = NoBody /\ post_url = NoneRef /\ soup = NoSoup
  /\ post_title = <<>> /\ headers = <<>> /\ image_urls = <<>>
  /\ text \in TextInputs
  /\ chunks = <<>> /\ sent = 0
  /\ netlog = <<>> /\ stagelog = <<>>
  /\ esc_in = <<>> /\ esc_out = <<>>

NextChunks ==
  \/ Split
  \/ SendChunk

SpecChunks == InitChunks /\ [][NextChunks]_vars

\* send_telegram_images on lists of up to MaxImgs image URLs
ImgListInputs == {ImgList(n, s) : n \in 0..MaxImgs, s \in 0..3}

InitImages ==
  /\ pc = "send_images"
  /\ EnvSet
  /\ xml_content = NoBody /\ post_url = NoneRef /\ soup = NoSoup
  /\ post_title = <<>> /\ headers = <<>>
  /\ image_urls \in ImgListInputs
  /\ text = <<>> /\ chunks = <<>> /\ sent = 0
  /\ netlog = <<>> /\ stagelog = <<>>
  /\ esc_in = <<>> /\ esc_out = <<>>

NextImages == SendImages

SpecImages == InitImages /\ [][NextImages]_vars

\* extract_post_data on posts of up to MaxHeadings headings and MaxImgTags
\* img elements
DocInputs ==
  {[headings |-> hs, imgs |-> <<>>] : hs \in Seqs(HeadingPool, MaxHeadings)}
  \cup {[headings |-> hs, imgs |-> is] :
          hs \in {<<>>, DocWeekly.headings}, is \in Seqs(ImgPool, MaxImgTags)}

InitExtract ==
  /\ pc = "extract"
  /\ EnvSet
  /\ xml_content = NoBody
  /\ post_url \in {Some(PostUrl), Some(PostUrl2)}
  /\ soup \in {Some(d) : d \in DocInputs}
  /\ post_title = <<>> /\ headers = <<>> /\ image_urls = <<>>
  /\ text = <<>> /\ chunks = <<>> /\ sent = 0
  /\ netlog = <<>> /\ stagelog = <<>>
  /\ esc_in = <<>> /\ esc_out = <<>>

NextExtract == Extract

SpecExtract == InitExtract /\ [][NextExtract]_vars

\* prepare_text_for_sending on titles and on up to MaxHdrs headers
TitleInputs == {<<>>, <<"a">>, <<"T", ".">>, <<"-", " ", "[", "x", "]">>}

HeaderInputs ==
  {[type |-> t, id |-> i, content |-> c] :
     t \in {"h1", "h3"},
     i \in {Some(<<"i", "n">>), NoneS},
     c \in {<<"N">>, <<"A", "-", "1">>, <<"(", "x", ")">>}}

InitFormat ==
  /\ pc = "prepare"
  /\ EnvSet
  /\ xml_content = NoBody
  /\ post_url \in {Some(PostUrl), Some(PostUrl2)}
  /\ soup = NoSoup
  /\ post_title \in TitleInputs
  /\ headers \in Seqs(HeaderInputs, MaxHdrs)
  /\ image_urls = <<>>
  /\ text = <<>> /\ chunks = <<>> /\ sent = 0
  /\ netlog = <<>> /\ stagelog = <<>>
  /\ esc_in = <<>> /\ esc_out = <<>>

NextFormat == Prepare

SpecFormat == InitFormat /\ [][NextFormat]_vars

-----------------------------------------------------------------------------
(* What the claims speak of *)

StageOrder ==
  <<"fetch_rss", "get_url", "fetch_post", "extract", "prepare", "send_text",
    "send_images">>

IsPrefix(a, b) == Len(a) <= Len(b) /\ SubSeq(b, 1, Len(a)) = a

NoPosts == \A i \in 1..Len(netlog) : netlog[i].method # "POST"

\* the texts of the sendMessage requests issued so far, in order
SentTexts ==
  LET IsMessage(r) == r.target = "sendMessage"
      msgs == SelectSeq(netlog, IsMessage)
  IN  [i \in 1..Len(msgs) |-> msgs[i].text]

MediaRequests ==
  LET IsMedia(r) == r.target = "sendMediaGroup"
  IN  SelectSeq(netlog, IsMedia)

EnvMissing(o) == ~o.some \/ o.v = ""

\* C1: the stages of main run in the fixed order, and a failed feed fetch, a
\* feed without a URL (malformed, or without an item link) or a failed post
\* fetch ends the run at that stage: no later stage runs, no POST is issued,
\* no exception leaves main.
C1_ShortCircuit ==
  /\ IsPrefix(stagelog, StageOrder)
  /\ pc # "crashed"
  /\ (Len(stagelog) >= 1 /\ ~TruthyBytes(xml_content))
       => pc = "done" /\ stagelog = SubSeq(StageOrder, 1, 1) /\ NoPosts
  /\ (Len(stagelog) >= 2 /\ (xml_content.v.malformed
                             \/ \A i \in 1..Len(xml_content.v.items) :
                                  xml_content.v.items[i] = <<>>))
       => ~post_url.some
  /\ (Len(stagelog) >= 2 /\ ~TruthyRef(post_url))
       => pc = "done" /\ stagelog = SubSeq(StageOrder, 1, 2) /\ NoPosts
  /\ (Len(stagelog) >= 3 /\ ~soup.some)
       => pc = "done" /\ stagelog = SubSeq(StageOrder, 1, 3) /\ NoPosts

\* a run that ended at the feed reader: a well-formed feed with no item
C1_Witness ==
  /\ pc = "done"
  /\ stagelog = <<"fetch_rss", "get_url">>
  /\ xml_content.some /\ ~xml_content.v.empty /\ ~xml_content.v.malformed
  /\ xml_content.v.items = <<>>
  /\ Len(netlog) = 1

C3_BestEffort ==
  /\ pc # "crashed"
  /\ pc = "send_chunk" => SentTexts = SubSeq(chunks, 1, sent)
  /\ (pc \in {"send_images", "done"} /\ Len(stagelog) >= 6)
       => SentTexts = chunks /\ Flatten(SentTexts) = text
  /\ (pc = "done" /\ Len(stagelog) >= 6)
       => /\ stagelog = StageOrder
          /\ Len(MediaRequests) = (IF image_urls = <<>> THEN 0 ELSE 1)
          /\ image_urls # <<>> => netlog[Len(netlog)].target = "sendMediaGroup"

\* every one of several chunk sends failed, and the images were still sent
C3_Witness ==
  /\ pc = "done"
  /\ Len(chunks) >= 2
  /\ Len(SentTexts) = Len(chunks)
  /\ \A i \in 1..Len(netlog) :
       netlog[i].target = "sendMessage" => netlog[i].outcome # "ok"
  /\ Len(MediaRequests) = 1

\* C4 (amended): no image, no request; otherwise one sendMediaGroup request
\* holding the first min(n, 10) URLs in order as photo items, the rest
\* dropped, and no item carries a caption, the first included.
C4_MediaGroup ==
  /\ pc # "crashed"
  /\ pc = "done" =>
       LET n == Len(image_urls)
       IN  /\ n = 0 => netlog = <<>>
           /\ n > 0 =>
                /\ Len(netlog) = 1
                /\ netlog[1].method = "POST"
                /\ netlog[1].target = "sendMediaGroup"
                /\ Len(netlog[1].media) = Min(n, 10)
                /\ \A k \in 1..Len(netlog[1].media) :
                     /\ netlog[1].media[k].type = "photo"
                     /\ netlog[1].media[k].media = image_urls[k]
                     /\ "caption" \notin DOMAIN netlog[1].media[k]

\* C4 as claimed: the first item of the batch carries a caption
C4_Original ==
  pc = "done" =>
    LET n == Len(image_urls)
    IN  /\ n = 0 => netlog = <<>>
        /\ n > 0 =>
             /\ Len(netlog) = 1
             /\ Len(netlog[1].media) = Min(n, 10)
             /\ \A k \in 1..Len(netlog[1].media) :
                  /\ netlog[1].media[k].media = image_urls[k]
                  /\ ("caption" \in DOMAIN netlog[1].media[k]) <=> (k = 1)

\* more images than a batch holds were handed over and one request went out
C4_Witness ==
  /\ pc = "done"
  /\ Len(image_urls) > 10
  /\ Len(netlog) = 1

\* the reserved set as the claim lists it
ClaimReserved ==
  {"_", "*", "[", "]", "(", ")", "~", "GRAVE", ">", "#", "+", "-", "=", "|",
   "{", "}", ".", "!"}

\* o is s with exactly the characters of R preceded by one backslash each
EscapedBy(s, o, R) ==
  LET p(i) == i + Cardinality({j \in 1..i : s[j] \in R})
  IN  /\ Len(o) = p(Len(s))
      /\ \A i \in 1..Len(s) :
           /\ o[p(i)] = s[i]
           /\ s[i] \in R => o[p(i) - 1] = "\\"

\* C5 (amended): the result is the input, in order, with one backslash put
\* before each character of the reserved set and before each backslash, and
\* nothing else changed.
C5_Escape ==
  pc = "escaped" => EscapedBy(esc_in, esc_out, ClaimReserved \cup {"\\"})

\* C5 as claimed: a backslash, not in the set, is left alone
C5_Original == pc = "escaped" => EscapedBy(esc_in, esc_out, ClaimReserved)

\* an input with a backslash, a plain and a reserved character was escaped
C5_Witness ==
  /\ pc = "escaped"
  /\ esc_in = <<"\\", "a", "!">>
  /\ Len(esc_out) = 5

\* C6: every returned header has a non-empty anchor id, at both levels, and
\* an h3 is returned only with an id and a visible text.
C6_AnchorIds ==
  pc = "prepare" =>
    \A k \in 1..Len(headers) :
      /\ Truthy(headers[k].id)
      /\ headers[k].type = "h3" => headers[k].content # <<>>

-----------------------------------------------------------------------------
(* The closing marker *)

HasTitleClass(h) ==
  h.class.some /\ \E i \in 1..Len(h.class.v) : h.class.v[i] = "post-title"

IdContainsMarker(h) == h.id.some /\ Substring(Marker, h.id.v)

Ids(hs) == [i \in 1..Len(hs) |-> hs[i].id]

H1Headers ==
  LET IsH1(h) == h.type = "h1"
  IN  SelectSeq(headers, IsH1)

\* the post sp with only the headings at the positions in keep
Keeping(sp, keep) ==
  LET idx == [i \in 1..Len(sp.headings) |-> i]
      Kept(i) == i \in keep
      ks == SelectSeq(idx, Kept)
  IN  [sp EXCEPT !.headings = [j \in 1..Len(ks) |-> sp.headings[ks[j]]]]

Extracted == [raised |-> FALSE, title |-> post_title, headers |-> headers,
              images |-> image_urls]

\* C7 (amended): an h1 whose id contains the marker is never a returned
\* header; unless it carries the post-title class it changes nothing of the
\* result (with that class it still sets the title); every other h1 without
\* the post-title class is returned, in order, with its own id.
C7_ClosingMarker ==
  pc = "prepare" =>
    LET Closing(h) == h.name = "h1" /\ ~HasTitleClass(h) /\ IdContainsMarker(h)
        Plain(h) == h.name = "h1" /\ ~HasTitleClass(h) /\ ~IdContainsMarker(h)
    IN  /\ \A k \in 1..Len(H1Headers) : ~Substring(Marker, H1Headers[k].id.v)
        /\ extract_post_data(
             Keeping(soup.v, {i \in 1..Len(soup.v.headings) :
                                ~Closing(soup.v.headings[i])}),
             post_url.v) = Extracted
        /\ Ids(H1Headers) = Ids(SelectSeq(soup.v.headings, Plain))

\* C7 as claimed: an h1 whose id is the marker never changes the title,
\* whatever its classes, and only an id equal to the marker excludes an h1
C7_Original ==
  pc = "prepare" =>
    LET Marked(h) == h.name = "h1" /\ h.id = Some(Marker)
        Other(h) == h.name = "h1" /\ ~HasTitleClass(h) /\ h.id # Some(Marker)
    IN  /\ \A k \in 1..Len(H1Headers) : H1Headers[k].id # Some(Marker)
        /\ extract_post_data(
             Keeping(soup.v, {i \in 1..Len(soup.v.headings) :
                                ~Marked(soup.v.headings[i])}),
             post_url.v).title = post_title
        /\ Ids(H1Headers) = Ids(SelectSeq(soup.v.headings, Other))

\* a post with a closing heading and another h1, which alone was returned
C7_Witness ==
  /\ pc = "prepare"
  /\ \E i \in 1..Len(soup.v.headings) :
       /\ soup.v.headings[i].name = "h1"
       /\ soup.v.headings[i].id = Some(Marker)
       /\ ~HasTitleClass(soup.v.headings[i])
  /\ Len(H1Headers) = 1

\* C8: extraction never raises and returns a whole record: the placeholder
\* title when no h1 carries the post-title class, empty lists for a post
\* without headings or images, and one absolute URL per selected img with a
\* src, in order: a src with a scheme of its own, or else one with the post
\* URL's scheme and a host (the post's, unless the src names one); an img
\* without src is dropped.
C8_ExtractTotal ==
  /\ pc # "crashed"
  /\ pc = "prepare" =>
       LET hs == soup.v.headings
           WithSrc(img) == img.onpath /\ img.src.some /\ UrlStr(img.src.v) # <<>>
           tags == SelectSeq(soup.v.imgs, WithSrc)
       IN  /\ (\A i \in 1..Len(hs) : ~(hs[i].name = "h1" /\ HasTitleClass(hs[i])))
                => post_title = UntitledPost
           /\ hs = <<>> => headers = <<>>
           /\ soup.v.imgs = <<>> => image_urls = <<>>
           /\ Len(image_urls) = Len(tags)
           /\ \A k \in 1..Len(image_urls) :
                /\ image_urls[k].scheme # <<>>
                /\ tags[k].src.v.scheme # <<>> => image_urls[k] = tags[k].src.v
                /\ tags[k].src.v.scheme = <<>>
                     => /\ image_urls[k].scheme = post_url.v.scheme
                        /\ image_urls[k].netloc # <<>>
                        /\ image_urls[k].netloc =
                             (IF tags[k].src.v.netloc # <<>>
                                THEN tags[k].src.v.netloc
                                ELSE post_url.v.netloc)
                        /\ image_urls[k].path # <<>>
                        /\ image_urls[k].path[1] = "/"

\* a post without title heading and with a relative and a src-less img
C8_Witness ==
  /\ pc = "prepare"
  /\ post_title = UntitledPost
  /\ Len(soup.v.imgs) = 2
  /\ ~soup.v.imgs[1].src.some
  /\ soup.v.imgs[2].src.some /\ soup.v.imgs[2].src.v.scheme = <<>>
  /\ Len(image_urls) = 1

\* C9: without a non-empty BOT_TOKEN and CHAT_ID the program aborts at
\* startup and issues no request; every request and every stage of a run
\* comes after both were found non-empty.
C9_ConfigFirst ==
  /\ (netlog # <<>> \/ stagelog # <<>>)
       => ~EnvMissing(BOT_TOKEN) /\ ~EnvMissing(CHAT_ID)
  /\ (pc # "startup" /\ (EnvMissing(BOT_TOKEN) \/ EnvMissing(CHAT_ID)))
       => pc = "aborted" /\ netlog = <<>> /\ stagelog = <<>>

\* the chat identifier is set but empty and the program has aborted
C9_Witness ==
  /\ pc = "aborted"
  /\ BOT_TOKEN = Some("set")
  /\ CHAT_ID = Some("")
  /\ netlog = <<>>

-----------------------------------------------------------------------------
(* The lines of a text *)

NewLines(t) == {i \in 1..Len(t) : t[i] = "\n"}

\* the position of the k-th newline of t
NthNewLine(t, k) ==
  CHOOSE i \in NewLines(t) : Cardinality({j \in NewLines(t) : j <= i}) = k

LineCount(t) == Cardinality(NewLines(t)) + 1

\* t.split("\n")[k - 1]
Line(t, k) ==
  SubSeq(t, IF k = 1 THEN 1 ELSE NthNewLine(t, k - 1) + 1,
            IF k = LineCount(t) THEN Len(t) ELSE NthNewLine(t, k) - 1)

\* the bullet the claim describes for header h
ClaimedBullet(h, url) ==
  (IF h.type = "h1" THEN <<"\\", "-", " ">>
   ELSE <<" ", " ", " ", "\\", "-", " ">>)
  \o <<"[">> \o escape_markdown_v2(h.content) \o <<"]", "(">> \o url
  \o <<"#">> \o (IF h.id.some THEN h.id.v ELSE <<"N", "o", "n", "e">>)
  \o <<")">>

\* C10 (amended): for texts without a line break, the output is the escaped
\* title and a backslash at the end of line 1, a line holding one backslash
\* (empty when there is no header), and then exactly one line per header, in
\* order: the bullet of its level and the link [escaped text](url#id), with
\* a backslash before each further line break.  Without headers the output
\* is the escaped title followed by backslash and newline.
C10_Outline ==
  pc = "split" =>
    LET n == Len(headers)
        url == UrlStr(post_url.v)
    IN  /\ LineCount(text) = n + 2
        /\ Line(text, 1) = escape_markdown_v2(post_title) \o <<"\\">>
        /\ Line(text, 2) = (IF n = 0 THEN <<>> ELSE <<"\\">>)
        /\ \A k \in 1..n :
             Line(text, k + 2) =
               ClaimedBullet(headers[k], url)
               \o (IF k < n THEN <<"\\">> ELSE <<>>)
        /\ n = 0 => text = escape_markdown_v2(post_title) \o <<"\\", "\n">>

\* C10 as claimed: the escaped title, then one line per header and nothing
\* else; without headers the escaped title alone
C10_Original ==
  pc = "split" =>
    LET n == Len(headers)
        url == UrlStr(post_url.v)
    IN  /\ LineCount(text) = n + 1
        /\ Line(text, 1) = escape_markdown_v2(post_title)
        /\ \A k \in 1..n : Line(text, k + 1) = ClaimedBullet(headers[k], url)
        /\ n = 0 => text = escape_markdown_v2(post_title)

\* a first-level and a third-level header were formatted
C10_Witness ==
  /\ pc = "split"
  /\ Len(headers) = 2
  /\ headers[1].type = "h1"
  /\ headers[2].type = "h3"
  /\ post_title # <<>>

=============================================================================
